---- MODULE Spec2Model ----
(***************************************************************************)
(* A model of pycard: the deck, the meld engine (detection by the          *)
(* automated agent, validation for the interactive agent), the turn loop   *)
(* of Game.play and the scoring.  Python strings are sequences of          *)
(* one-character strings, so that parsing and formatting of card tokens    *)
(* and of lay-off references are computed on characters.                   *)
(***************************************************************************)
EXTENDS Integers, Sequences, FiniteSets, TLC

VARIABLES
    stock,          \* Game.stock: the cards of the deck, the top one last
    discard,        \* Game.discard: the discard pile, the top one last
    players,        \* Game.players: name -> [computer, hand, melds]
    state_history,  \* Game._state_history
    turn,           \* position of the for loop of Game.play in the sorted names
    pc,             \* "draw", "meld", "discard" of the current player's turn,
                    \* "over" (sys.exit(0)), "crashed" (uncaught exception),
                    \* "hung" (a loop that reads no more input)
    draw,           \* Human.draw: the local draw, the request being handled
    meld,           \* Human.meld: the local meld, the tuple (cards, ref)
    validated,      \* what validate_meld returned for it: "none", "True", "False"
    discard_input,  \* Human.discard: the local discard, the token being handled
    error,          \* the exception that ended the process, "" for none
    scores,         \* the ranking score_players returned at game over
    made,           \* a Deck on its own: the list it was constructed from
    ndraws,         \* a Deck on its own: the cards drawn from it so far
    ret             \* a function called on its own: the call and its outcome

vars == <<stock, discard, players, state_history, turn, pc,
          draw, meld, validated, discard_input, error, scores,
          made, ndraws, ret>>

\* what a game leaves alone
unit == <<made, ndraws, ret>>

\* what a call of a function on its own leaves alone
game == <<discard, state_history, turn, draw, meld, validated, discard_input,
          error, scores>>

(***************************************************************************)
(* Bounds of the model.                                                    *)
(***************************************************************************)
\* cards left in the stock after the deal are 1..MaxStock
MaxStock == 3
\* an interactive meld proposal names at most MaxProposal cards
MaxProposal == 4
\* the interactive players are asked to draw in the first MaxRounds rounds
\* only (a game of automated players ends by itself)
MaxRounds == 1
\* a hand given to the detection of melds on its own holds at most MaxHand cards
MaxHand == 5
\* a deck made from a list of cards holds 1..MaxDeck cards
MaxDeck == 3
\* a deal on its own is to 1..MaxDealt players
MaxDealt == 5

(***************************************************************************)
(* Python helpers.                                                         *)
(***************************************************************************)
None == <<>>

Min(a, b) == IF a < b THEN a ELSE b

\* s[a:b] of Python: 0-based, half-open, clipped to the sequence
PySlice(s, a, b) ==
    LET hi == Min(b, Len(s))
    IN  IF a >= hi THEN <<>> ELSE SubSeq(s, a + 1, hi)

Front(s) == SubSeq(s, 1, Len(s) - 1)
Last(s) == s[Len(s)]

Range(s) == {s[i] : i \in 1..Len(s)}

RECURSIVE SumSeq(_)
SumSeq(s) == IF s = <<>> THEN 0 ELSE s[1] + SumSeq(Tail(s))

RECURSIVE Concat(_)
Concat(ss) == IF ss = <<>> THEN <<>> ELSE ss[1] \o Concat(Tail(ss))

\* list.remove(x): drops the first occurrence (the caller checks x is there)
RemoveFirst(s, x) ==
    LET i == CHOOSE k \in 1..Len(s) : s[k] = x /\ \A j \in 1..(k - 1) : s[j] # x
    IN  SubSeq(s, 1, i - 1) \o SubSeq(s, i + 1, Len(s))

\* the distinct elements of s in the order of their first occurrence
\* (the key order of a dict filled by one pass over s)
RECURSIVE DistinctInOrder(_)
DistinctInOrder(s) ==
    IF s = <<>> THEN <<>>
    ELSE LET f == DistinctInOrder(Front(s))
         IN  IF Last(s) \in Range(f) THEN f ELSE Append(f, Last(s))

\* the elements of s that satisfy the test, in order
RECURSIVE SelectKey(_, _, _)
SelectKey(s, keys, k) ==
    IF s = <<>> THEN <<>>
    ELSE IF keys[1] = k THEN <<s[1]>> \o SelectKey(Tail(s), Tail(keys), k)
         ELSE SelectKey(Tail(s), Tail(keys), k)

\* sorted(pairs, key=first component): stable, ascending
InsertAsc(p, s) ==
    LET k == Cardinality({i \in 1..Len(s) : s[i][1] <= p[1]})
    IN  SubSeq(s, 1, k) \o <<p>> \o SubSeq(s, k + 1, Len(s))

RECURSIVE SortAsc(_)
SortAsc(ps) == IF ps = <<>> THEN <<>> ELSE InsertAsc(Last(ps), SortAsc(Front(ps)))

\* sorted(pairs, key=first component, reverse=True): stable, descending
InsertDesc(p, s) ==
    LET k == Cardinality({i \in 1..Len(s) : s[i][1] >= p[1]})
    IN  SubSeq(s, 1, k) \o <<p>> \o SubSeq(s, k + 1, Len(s))

RECURSIVE SortDesc(_)
SortDesc(ps) == IF ps = <<>> THEN <<>> ELSE InsertDesc(Last(ps), SortDesc(Front(ps)))

Seconds(ps) == [i \in 1..Len(ps) |-> ps[i][2]]

(***************************************************************************)
(* deck.py: ranks, suits, cards, tokens.                                   *)
(***************************************************************************)
\* RANK_MAP.keys() in insertion order
RANKS == << <<"2">>, <<"3">>, <<"4">>, <<"5">>, <<"6">>, <<"7">>, <<"8">>,
            <<"9">>, <<"1", "0">>, <<"J">>, <<"Q">>, <<"K">>, <<"A">> >>

RankSet == Range(RANKS)

RankIndex(r) == CHOOSE i \in 1..Len(RANKS) : RANKS[i] = r

RANK_MAP == [r \in RankSet |-> <<2, 3, 4, 5, 6, 7, 8, 9, 10, 11, 12, 13, 14>>[RankIndex(r)]]

CARD_VALUE_MAP == [r \in RankSet |-> <<2, 3, 4, 5, 6, 7, 8, 9, 10, 10, 10, 10, 15>>[RankIndex(r)]]

SUITS == <<"H", "S", "C", "D">>

\* the members of the enum Suit in definition order
Suit == <<"diamonds", "hearts", "clubs", "spades">>

Card(r, s) == [rank |-> r, suit |-> s]

DECK_SIZE == 52

\* a default deck that gives every rank one suit four times
DefaultCards_one_suit ==
    [k \in 1..(Len(RANKS) * Len(Suit)) |->
        Card(RANKS[((k - 1) \div Len(Suit)) + 1], Suit[1])]

\* Deck.__init__ with cards=None: rank-major, 4 suits per rank
DefaultCards ==
    [k \in 1..(Len(RANKS) * Len(Suit)) |->
        Card(RANKS[((k - 1) \div Len(Suit)) + 1], Suit[((k - 1) % Len(Suit)) + 1])]

\* Deck.__init__: an empty (falsy) list of cards gives the default deck too
Deck(cards) == IF cards = <<>> THEN DefaultCards ELSE cards

\* a parser that takes the first character for the rank and the last for
\* the suit
string_to_card_short_rank(card_str) ==
    LET n == Len(card_str)
        mapper == [c \in {"D", "C", "H", "S"} |->
                     CASE c = "D" -> "diamonds" [] c = "C" -> "clubs"
                       [] c = "H" -> "hearts" [] c = "S" -> "spades"]
    IN  IF n # 2 /\ n # 3 THEN [ok |-> FALSE, card |-> None]
        ELSE IF <<card_str[1]>> \notin RankSet \/ card_str[n] \notin Range(SUITS)
             THEN [ok |-> FALSE, card |-> None]
             ELSE [ok |-> TRUE, card |-> Card(<<card_str[1]>>, mapper[card_str[n]])]

\* string_to_card: [ok |-> FALSE] stands for ValueError
string_to_card(card_str) ==
    LET n == Len(card_str)
        rank == IF n = 2 THEN <<card_str[1]>> ELSE <<card_str[1], card_str[2]>>
        suit == IF n = 2 THEN card_str[2] ELSE card_str[3]
        mapper == [c \in {"D", "C", "H", "S"} |->
                     CASE c = "D" -> "diamonds" [] c = "C" -> "clubs"
                       [] c = "H" -> "hearts" [] c = "S" -> "spades"]
    IN  IF n # 2 /\ n # 3 THEN [ok |-> FALSE, card |-> None]
        ELSE IF rank \notin RankSet \/ suit \notin Range(SUITS)
             THEN [ok |-> FALSE, card |-> None]
             ELSE [ok |-> TRUE, card |-> Card(rank, mapper[suit])]

ascii_display_card(card) ==
    LET suitmap == [s \in Range(Suit) |->
                      CASE s = "diamonds" -> "D" [] s = "spades" -> "S"
                        [] s = "clubs" -> "C" [] s = "hearts" -> "H"]
    IN  card.rank \o <<suitmap[card.suit]>>

\* Deck.deal: [ok |-> FALSE] stands for ValueError("Deck not large enough.")
deal(cards, count, n) ==
    IF count * n > DECK_SIZE
    THEN [ok |-> FALSE, hands |-> <<>>, rest |-> <<>>]
    ELSE [ok |-> TRUE,
          hands |-> [i \in 1..n |-> PySlice(cards, (i - 1) * count, (i - 1) * count + count)],
          rest |-> Deck(PySlice(cards, count * n, Len(cards)))]

(***************************************************************************)
(* game.py: validation of a proposed meld.                                 *)
(***************************************************************************)
\* str.split(sep) for a one-character separator
RECURSIVE Split(_, _)
Split(s, sep) ==
    IF \A i \in 1..Len(s) : s[i] # sep THEN <<s>>
    ELSE LET k == CHOOSE i \in 1..Len(s) : s[i] = sep /\ \A j \in 1..(i - 1) : s[j] # sep
         IN  <<SubSeq(s, 1, k - 1)>> \o Split(SubSeq(s, k + 1, Len(s)), sep)

\* validate_meld, lines 91-94: the cards of the referenced meld, or the
\* exception raised on the way.  index is the str that split returned and a
\* list is indexed by it, which raises TypeError whatever the list holds.
referenced_cards(ref) ==
    LET parts == Split(ref, ":")
    IN  IF Len(parts) # 2 THEN [raises |-> "ValueError", cards |-> <<>>]
        ELSE IF parts[1] \notin DOMAIN players THEN [raises |-> "KeyError", cards |-> <<>>]
        ELSE [raises |-> "TypeError", cards |-> <<>>]

\* the check for a run without the comparison of the suits
legal_no_suit_check(cards) ==
    LET n == Len(cards)
        rank_vals == Seconds(SortAsc([i \in 1..n |-> <<RANK_MAP[cards[i].rank], RANK_MAP[cards[i].rank]>>]))
    IN  IF n < 3 THEN FALSE
        ELSE IF Cardinality(Range(rank_vals)) = 1 THEN TRUE
        ELSE \A i \in 1..(n - 1) : rank_vals[i + 1] - rank_vals[i] = 1

\* validate_meld, lines 97-111, on the list of cards
legal(cards) ==
    LET n == Len(cards)
        rank_vals == Seconds(SortAsc([i \in 1..n |-> <<RANK_MAP[cards[i].rank], RANK_MAP[cards[i].rank]>>]))
        dists == [i \in 1..(n - 1) |-> rank_vals[i + 1] - rank_vals[i]]
        suits == {cards[i].suit : i \in 1..n}
    IN  IF n < 3 THEN FALSE
        ELSE IF Cardinality(Range(rank_vals)) = 1 THEN TRUE
        ELSE IF Cardinality(suits) = 1 /\ \A i \in 1..(n - 1) : dists[i] = 1 THEN TRUE
        ELSE FALSE

\* Game.validate_meld: the exception raised ("" for none), the value returned
\* and the list `cards` as the call leaves it (extend works in place)
validate_meld(m) ==
    LET look == IF m.ref # None THEN referenced_cards(m.ref)
                ELSE [raises |-> "", cards |-> <<>>]
        cards == m.cards \o look.cards
    IN  IF look.raises # ""
        THEN [raises |-> look.raises, result |-> FALSE, cards |-> m.cards]
        ELSE [raises |-> "", result |-> legal(cards), cards |-> cards]

(***************************************************************************)
(* base.py: detection of melds by the automated agent.                     *)
(***************************************************************************)
\* get_ascending: the loop over zip(cards, cards[1:]) from pair i on
RECURSIVE ascending_from(_, _, _, _, _)
ascending_from(cards, i, runs, start_run, end_run) ==
    IF i >= Len(cards) - 1 THEN runs
    ELSE LET runs2 == IF end_run - start_run > 2
                      THEN Append(runs, PySlice(cards, start_run, end_run))
                      ELSE runs
         IN  IF CARD_VALUE_MAP[cards[i + 2].rank] - CARD_VALUE_MAP[cards[i + 1].rank] = 1
             THEN ascending_from(cards, i + 1, runs2, start_run, end_run + 1)
             ELSE ascending_from(cards, i + 1, runs2, i + 1, i + 1)

get_ascending(cards) == ascending_from(cards, 0, <<>>, 0, 0)

sort_by_value(cards) ==
    Seconds(SortAsc([i \in 1..Len(cards) |-> <<CARD_VALUE_MAP[cards[i].rank], cards[i]>>]))

\* a detection that takes a pair of one rank for a set
find_sets_pairs(hand) ==
    LET ranks == [i \in 1..Len(hand) |-> hand[i].rank]
        keys == DistinctInOrder(ranks)
        groups == [k \in 1..Len(keys) |-> SelectKey(hand, ranks, keys[k])]
    IN  SelectSeq(groups, LAMBDA g : Len(g) >= 2)

\* _find_meld, lines 90-97: the groups of one rank, in the order of the dict
find_sets(hand) ==
    LET ranks == [i \in 1..Len(hand) |-> hand[i].rank]
        keys == DistinctInOrder(ranks)
        groups == [k \in 1..Len(keys) |-> SelectKey(hand, ranks, keys[k])]
    IN  SelectSeq(groups, LAMBDA g : Len(g) >= 3)

find_runs(hand) ==
    LET suitsOf == [i \in 1..Len(hand) |-> hand[i].suit]
        keys == DistinctInOrder(suitsOf)
    IN  Concat([k \in 1..Len(keys) |->
                 get_ascending(sort_by_value(SelectKey(hand, suitsOf, keys[k])))])

\* DummyAgent._find_meld
find_meld(hand) ==
    LET melds == find_sets(hand) \o find_runs(hand)
    IN  Seconds(SortDesc([i \in 1..Len(melds) |-> <<Len(melds[i]), melds[i]>>]))

card_points(cards) == SumSeq([i \in 1..Len(cards) |-> CARD_VALUE_MAP[cards[i].rank]])

\* DummyAgent.meld, lines 61-64: the top scoring candidate
top_scoring(melds) ==
    SortDesc([i \in 1..Len(melds) |-> <<card_points(melds[i]), melds[i]>>])[1][2]

\* for card in cards: self.hand.remove(card); [ok |-> FALSE] stands for the
\* ValueError of the first card that is not in the hand, the hand as left by then
RECURSIVE remove_each(_, _)
remove_each(hand, cards) ==
    IF cards = <<>> THEN [ok |-> TRUE, hand |-> hand]
    ELSE IF cards[1] \notin Range(hand) THEN [ok |-> FALSE, hand |-> hand]
    ELSE remove_each(RemoveFirst(hand, cards[1]), Tail(cards))

(***************************************************************************)
(* Meld records.  The automated agent appends the list of cards, the       *)
(* interactive agent appends the tuple (cards, ref).                       *)
(***************************************************************************)
list_meld(cards) == [shape |-> "list", cards |-> cards, ref |-> None]
tuple_meld(cards, ref) == [shape |-> "tuple", cards |-> cards, ref |-> ref]

(***************************************************************************)
(* game.py: scoring.                                                       *)
(***************************************************************************)
DigitChars == <<"0", "1", "2", "3", "4", "5", "6", "7", "8", "9">>

IsDigit(c) == c \in Range(DigitChars)

\* int(c) for a digit character
DigitVal(c) == (CHOOSE i \in 1..Len(DigitChars) : DigitChars[i] = c) - 1

\* the keys of Game.players in insertion order: initialize inserts by index
insertion_order ==
    Seconds(SortAsc(LET ns == CHOOSE q \in [1..Cardinality(DOMAIN players) -> DOMAIN players] :
                                  \A n \in DOMAIN players : \E i \in DOMAIN q : q[i] = n
                    IN  [i \in 1..Len(ns) |-> <<DigitVal(ns[i][2]), ns[i]>>]))

\* score_players, line 81: c[0] of a card is its rank; the first item of a
\* tuple meld is the list of cards and c[0] its first card, no key of the map
meld_points(m) ==
    IF m.shape = "list"
    THEN [raises |-> "", points |-> card_points(m.cards)]
    ELSE [raises |-> "KeyError", points |-> 0]

player_score(p) ==
    SumSeq([i \in 1..Len(p.melds) |-> meld_points(p.melds[i]).points])
        - card_points(p.hand)

score_raises(ps) ==
    \E n \in DOMAIN ps : \E i \in 1..Len(ps[n].melds) : meld_points(ps[n].melds[i]).raises # ""

\* a ranking in the order of the dict, not sorted
score_players_unsorted(ps) ==
    LET names == insertion_order
    IN  [i \in 1..Len(names) |-> <<names[i], player_score(ps[names[i]])>>]

\* Game.score_players on the players ps: (name, score) by descending score
score_players(ps) ==
    LET names == insertion_order
    IN  [i \in 1..Len(names) |->
            LET e == SortDesc([k \in 1..Len(names) |-> <<player_score(ps[names[k]]), names[k]>>])[i]
            IN  <<e[2], e[1]>>]

(***************************************************************************)
(* game.py: construction of a game.                                        *)
(***************************************************************************)
\* initialize, line 41: the name of player i of num_players interactive ones
player_name(i, num_players) == <<IF i < num_players THEN "p" ELSE "c", DigitChars[i + 1]>>

\* initialize, lines 32-35
hand_size(n) == IF n = 2 THEN 13 ELSE 7

\* initialize, lines 37-46: the stock and the players dealt from the deck d
initialize(d, num_players, num_computers) ==
    LET n == num_players + num_computers
        dl == deal(d, hand_size(n), n)
    IN  [ok |-> dl.ok,
         stock |-> dl.rest,
         players |-> [nm \in {player_name(i, num_players) : i \in 0..(n - 1)} |->
                        LET i == CHOOSE k \in 0..(n - 1) : player_name(k, num_players) = nm
                        IN  [computer |-> ~(i < num_players),
                             hand |-> dl.hands[i + 1],
                             melds |-> <<>>]]]

\* _build_state
build_state(stk, dsc, ps) ==
    [stock |-> stk, discard |-> dsc,
     players |-> [n \in DOMAIN ps |-> [hand |-> ps[n].hand, melds |-> ps[n].melds]]]

\* a deck listed by its tokens
cards_of(tokens) == [i \in 1..Len(tokens) |-> string_to_card(tokens[i]).card]

\* the default deck in suit-major order
SuitMajor ==
    [k \in 1..(Len(RANKS) * Len(Suit)) |->
        Card(RANKS[((k - 1) % Len(RANKS)) + 1], Suit[((k - 1) \div Len(RANKS)) + 1])]

\* a deck arranged so that the first two hands hold a set and a run each
\* and the third holds no meld
Arranged ==
    cards_of(<< <<"K","D">>, <<"6","C">>, <<"7","C">>, <<"8","C">>, <<"9","D">>, <<"9","H">>, <<"9","S">>,
                <<"5","C">>, <<"4","S">>, <<"5","H">>, <<"6","D">>, <<"Q","D">>, <<"Q","H">>, <<"Q","S">>,
                <<"2","D">>, <<"4","D">>, <<"6","H">>, <<"8","S">>, <<"1","0","H">>, <<"J","S">>, <<"A","C">>,
                <<"3","S">>, <<"9","C">>, <<"2","H">>, <<"7","S">>, <<"J","D">>, <<"3","C">> >>)

\* the decks handed to initialize are prefixes of these
Arrangements == {DefaultCards, SuitMajor, Arranged}

\* (num_players, num_computers)
Configs == {<<1, 0>>, <<2, 1>>, <<0, 3>>, <<0, 1>>}

(***************************************************************************)
(* game.py: the turn loop.                                                 *)
(***************************************************************************)
CharCode(c) ==
    CASE c = "c" -> 99 [] c = "p" -> 112 [] OTHER -> 48 + DigitVal(c)

\* a < b for two strings of Python
RECURSIVE StrLess(_, _)
StrLess(a, b) ==
    IF b = <<>> THEN FALSE
    ELSE IF a = <<>> THEN TRUE
    ELSE IF a[1] # b[1] THEN CharCode(a[1]) < CharCode(b[1])
    ELSE StrLess(Tail(a), Tail(b))

\* the names of sorted(self.players.items())
RECURSIVE sorted_names(_)
sorted_names(S) ==
    IF S = {} THEN <<>>
    ELSE LET m == CHOOSE x \in S : \A y \in S \ {x} : StrLess(x, y)
         IN  <<m>> \o sorted_names(S \ {m})

\* a loop over the players as they were inserted, not sorted
order_unsorted == insertion_order

order == sorted_names(DOMAIN players)

Cur == order[turn]

Human == ~players[Cur].computer

\* show_meld, line 120, called by print_gamestate for every meld on the table:
\* cards, ref = meld fails on a list of three or more cards
print_gamestate_raises ==
    \E n \in DOMAIN players : \E i \in 1..Len(players[n].melds) :
        players[n].melds[i].shape = "list" /\ Len(players[n].melds[i].cards) # 2

Raise(e) ==
    /\ pc' = "crashed"
    /\ error' = e

\* a check that forgets the stock
game_over_hand_only(stk, ps) == Len(ps[Cur].hand) = 0

\* Game.play, line 60: the termination check
game_over(stk, ps) == Len(ps[Cur].hand) = 0 \/ Len(stk) = 0

\* a check of the end of the game that is made once a round, after the
\* last player's turn
after_turn_checks_at_round_end(stk, dsc, ps) ==
    IF turn = Len(order) /\ game_over(stk, ps)
    THEN IF score_raises(ps)
         THEN /\ Raise("KeyError")
              /\ UNCHANGED <<scores, turn, state_history>>
         ELSE /\ pc' = "over"
              /\ scores' = score_players(ps)
              /\ UNCHANGED <<error, turn, state_history>>
    ELSE /\ pc' = "draw"
         /\ UNCHANGED <<error, scores>>
         /\ IF turn < Len(order)
            THEN /\ turn' = turn + 1
                 /\ UNCHANGED state_history
            ELSE /\ turn' = 1
                 /\ state_history' = Append(state_history, build_state(stk, dsc, ps))

\* a loop that takes the snapshot after every turn, not after every round
after_turn_snapshot_each_turn(stk, dsc, ps) ==
    IF game_over(stk, ps)
    THEN IF score_raises(ps)
         THEN /\ Raise("KeyError")
              /\ UNCHANGED <<scores, turn, state_history>>
         ELSE /\ pc' = "over"
              /\ scores' = score_players(ps)
              /\ UNCHANGED <<error, turn, state_history>>
    ELSE /\ pc' = "draw"
         /\ UNCHANGED <<error, scores>>
         /\ turn' = (IF turn < Len(order) THEN turn + 1 ELSE 1)
         /\ state_history' = Append(state_history, build_state(stk, dsc, ps))

\* Game.play, lines 60-69: what follows play_turn, for the stock, the discard
\* pile and the players the turn left
after_turn(stk, dsc, ps) ==
    IF game_over(stk, ps)
    THEN IF score_raises(ps)
         THEN /\ Raise("KeyError")
              /\ UNCHANGED <<scores, turn, state_history>>
         ELSE /\ pc' = "over"
              /\ scores' = score_players(ps)
              /\ UNCHANGED <<error, turn, state_history>>
    ELSE /\ pc' = "draw"
         /\ UNCHANGED <<error, scores>>
         /\ IF turn < Len(order)
            THEN /\ turn' = turn + 1
                 /\ UNCHANGED state_history
            ELSE /\ turn' = 1
                 /\ state_history' = Append(state_history, build_state(stk, dsc, ps))

SetHand(n, h) == [players EXCEPT ![n].hand = h]

\* no draw request is read after MaxRounds rounds
RoundsLeft == Len(state_history) <= MaxRounds

NoMeldInput == [cards |-> <<>>, ref |-> None]

(***************************************************************************)
(* base.py: the automated agent.                                           *)
(***************************************************************************)
\* a draw that takes the top card of the discard pile when there is one
DummyDraw_from_discard ==
    /\ pc = "draw" /\ ~Human
    /\ IF Len(discard) = 0
       THEN /\ stock' = Front(stock)
            /\ players' = SetHand(Cur, Append(players[Cur].hand, Last(stock)))
            /\ UNCHANGED discard
       ELSE /\ discard' = Front(discard)
            /\ players' = SetHand(Cur, Append(players[Cur].hand, Last(discard)))
            /\ UNCHANGED stock
    /\ pc' = "meld"
    /\ UNCHANGED <<error, state_history, turn, draw, meld, validated, discard_input, scores>>
    /\ UNCHANGED unit

\* DummyAgent.draw
DummyDraw ==
    /\ pc = "draw" /\ ~Human
    /\ IF Len(stock) = 0
       THEN /\ Raise("IndexError")
            /\ UNCHANGED <<stock, players>>
       ELSE /\ stock' = Front(stock)
            /\ players' = SetHand(Cur, Append(players[Cur].hand, Last(stock)))
            /\ pc' = "meld"
            /\ UNCHANGED error
    /\ UNCHANGED <<discard, state_history, turn, draw, meld, validated, discard_input, scores>>
    /\ UNCHANGED unit

\* DummyAgent.meld
DummyMeld ==
    /\ pc = "meld" /\ ~Human
    /\ LET melds == find_meld(players[Cur].hand)
       IN  IF melds # <<>>
           THEN LET m == top_scoring(melds)
                IN  players' = [players EXCEPT
                                  ![Cur].hand = remove_each(@, m).hand,
                                  ![Cur].melds = Append(@, list_meld(m))]
           ELSE UNCHANGED players
    /\ pc' = "discard"
    /\ UNCHANGED <<stock, discard, state_history, turn, draw, meld, validated,
                   discard_input, error, scores>>
    /\ UNCHANGED unit

\* a discard that puts the last card of the hand on the pile and keeps it
DummyDiscard_keeps_hand ==
    /\ pc = "discard" /\ ~Human
    /\ Len(players[Cur].hand) > 0
    /\ discard' = Append(discard, Last(players[Cur].hand))
    /\ after_turn(stock, discard', players)
    /\ UNCHANGED <<stock, players, draw, meld, validated, discard_input>>
    /\ UNCHANGED unit

\* DummyAgent.discard, then the check of Game.play
DummyDiscard ==
    /\ pc = "discard" /\ ~Human
    /\ IF Len(players[Cur].hand) = 0
       THEN /\ Raise("IndexError")
            /\ UNCHANGED <<discard, players, scores, turn, state_history>>
       ELSE LET ps == SetHand(Cur, Front(players[Cur].hand))
                dsc == Append(discard, Last(players[Cur].hand))
            IN  /\ players' = ps
                /\ discard' = dsc
                /\ after_turn(stock, dsc, ps)
    /\ UNCHANGED <<stock, draw, meld, validated, discard_input>>
    /\ UNCHANGED unit

(***************************************************************************)
(* human.py: the interactive agent.  One action reads one line of input    *)
(* and runs the loop body up to the next call of input().                  *)
(***************************************************************************)
\* the draw requests typed, after lower() and strip()
DrawLines ==
    {<<>>, <<"s">>, <<"x">>, <<"d">>, <<"d", "x">>, <<"d", "1">>, <<"d", "2">>}

\* a draw that takes the top card of the pile only, whatever the number asked
popped_top_only(pile, n) == [k \in 1..Min(n, 1) |-> pile[Len(pile)]]

\* Human.draw, lines 53-55: the cards of n calls of game.discard.pop(), in
\* the order they are popped
popped(pile, n) == [k \in 1..n |-> pile[Len(pile) - k + 1]]

\* Human.draw
HumanDraw(line) ==
    /\ pc = "draw" /\ Human /\ RoundsLeft
    /\ IF print_gamestate_raises
       THEN /\ Raise("ValueError")
            /\ UNCHANGED <<stock, discard, players, draw>>
       ELSE IF Len(line) = 0
       THEN /\ draw' = line
            /\ UNCHANGED <<stock, discard, players, pc, error>>
       ELSE IF line = <<"s">>
       THEN IF Len(stock) = 0
            THEN /\ Raise("IndexError")
                 /\ draw' = line
                 /\ UNCHANGED <<stock, discard, players>>
            ELSE /\ stock' = Front(stock)
                 /\ players' = SetHand(Cur, Append(players[Cur].hand, Last(stock)))
                 /\ pc' = "meld"
                 /\ draw' = <<>>
                 /\ UNCHANGED <<discard, error>>
       ELSE IF line[1] = "d"
       THEN IF Len(line) < 2 \/ ~IsDigit(line[2])
            THEN /\ draw' = line
                 /\ UNCHANGED <<stock, discard, players, pc, error>>
            ELSE LET num_discard == DigitVal(line[2])
                     c == popped(discard, num_discard)
                 IN  IF num_discard > Len(discard)
                     THEN /\ draw' = line
                          /\ UNCHANGED <<stock, discard, players, pc, error>>
                     ELSE /\ discard' = SubSeq(discard, 1, Len(discard) - num_discard)
                          /\ players' = SetHand(Cur, players[Cur].hand \o c)
                          /\ pc' = "meld"
                          /\ draw' = <<>>
                          /\ UNCHANGED <<stock, error>>
       ELSE /\ pc' = "hung"
            /\ draw' = line
            /\ UNCHANGED <<stock, discard, players, error>>
    /\ UNCHANGED <<state_history, turn, meld, validated, discard_input, scores>>
    /\ UNCHANGED unit

DISCARD == <<"d", "i", "s", "c", "a", "r", "d">>

\* tokens of cards of the hand, as the player would type them
Window(hand, i, k) == [j \in 1..k |-> ascii_display_card(hand[i + j - 1])]

\* the lay-off references typed
RefTokens ==
    {n \o <<":", "0">> : n \in DOMAIN players}
        \cup {<<"z", "z", ":", "0">>, <<"p", "0", ":", "9">>, <<"p", "0", ":", "0", ":", "1">>}

\* the lines typed at the meld prompt, as lists of tokens (split())
MeldLines(hand) ==
    {<<DISCARD>>, <<>>, << <<"1", "H">> >>,
     << <<"A", "D">>, <<"A", "H">>, <<"A", "C">> >>}
        \cup {Window(hand, p[1], p[2]) :
                p \in {q \in (1..Len(hand)) \X (2..MaxProposal) : q[1] + q[2] - 1 <= Len(hand)}}
        \cup {<<Window(hand, i, 1)[1], Window(hand, i, 1)[1], Window(hand, i, 1)[1]>> :
                i \in 1..Min(1, Len(hand))}
        \cup {<<r>> \o Window(hand, i, 1) : r \in RefTokens, i \in 1..Min(1, Len(hand))}

\* an accepted meld that is appended while the hand keeps its cards
meld_accepted_keeps_hand(m, cards) ==
    /\ meld' = [cards |-> cards, ref |-> m.ref]
    /\ validated' = "True"
    /\ players' = [players EXCEPT ![Cur].melds = Append(@, tuple_meld(cards, m.ref))]
    /\ UNCHANGED <<pc, error>>

\* Human.meld, lines 83-88: validate_meld returned True for m and left the
\* list cards; the cards are removed from the hand one by one and the tuple
\* is appended
meld_accepted(m, cards) ==
    LET rm == remove_each(players[Cur].hand, cards)
    IN  /\ meld' = [cards |-> cards, ref |-> m.ref]
        /\ validated' = "True"
        /\ IF rm.ok
           THEN /\ players' = [players EXCEPT
                                 ![Cur].hand = rm.hand,
                                 ![Cur].melds = Append(@, tuple_meld(cards, m.ref))]
                /\ UNCHANGED <<pc, error>>
           ELSE /\ Raise("ValueError")
                /\ players' = SetHand(Cur, rm.hand)

\* a rejected meld that ends the meld phase
meld_rejected_breaks(m) ==
    /\ meld' = m
    /\ validated' = "False"
    /\ pc' = "discard"
    /\ UNCHANGED <<players, error>>

\* Human.meld, lines 89-92: validate_meld returned False for m
meld_rejected(m) ==
    /\ meld' = m
    /\ validated' = "False"
    /\ UNCHANGED <<players, pc, error>>

\* Human.meld, line 71: the local meld is the list of the tokens of the line
\* until a tuple is built of them
unparsed(line) == [cards |-> <<>>, ref |-> None, tokens |-> line]

\* Human.meld
HumanMeld(line) ==
    /\ pc = "meld" /\ Human
    /\ IF print_gamestate_raises
       THEN /\ Raise("ValueError")
            /\ UNCHANGED <<players, meld, validated>>
       ELSE IF line = <<DISCARD>>
       THEN /\ pc' = "discard"
            /\ meld' = NoMeldInput
            /\ validated' = "none"
            /\ UNCHANGED <<players, error>>
       ELSE IF Len(line) = 0
       THEN /\ Raise("IndexError")
            /\ meld' = unparsed(line)
            /\ validated' = "none"
            /\ UNCHANGED players
       ELSE LET hasRef == ":" \in Range(line[1])
                tokens == IF hasRef THEN Tail(line) ELSE line
                parsed == [i \in 1..Len(tokens) |-> string_to_card(tokens[i])]
                m == [cards |-> [i \in 1..Len(tokens) |-> parsed[i].card],
                      ref |-> IF hasRef THEN line[1] ELSE None]
                v == validate_meld(m)
            IN  IF \E i \in 1..Len(tokens) : ~parsed[i].ok
                THEN /\ Raise("ValueError")
                     /\ meld' = unparsed(line)
                     /\ validated' = "none"
                     /\ UNCHANGED players
                ELSE IF v.raises # ""
                THEN /\ Raise(v.raises)
                     /\ meld' = m
                     /\ validated' = "none"
                     /\ UNCHANGED players
                ELSE IF v.result
                THEN meld_accepted(m, v.cards)
                ELSE meld_rejected(m)
    /\ UNCHANGED <<stock, discard, state_history, turn, draw, discard_input, scores>>
    /\ UNCHANGED unit

\* the tokens typed at the discard prompt
DiscardTokens(hand) ==
    {<<>>, <<"1", "H">>, <<"A", "S">>}
        \cup {ascii_display_card(hand[i]) : i \in 1..Min(1, Len(hand))}

\* Human.discard, then the check of Game.play
HumanDiscard(token) ==
    /\ pc = "discard" /\ Human
    /\ LET parsed == string_to_card(token)
           hand == players[Cur].hand
       IN  IF print_gamestate_raises
           THEN /\ Raise("ValueError")
                /\ UNCHANGED <<discard, players, discard_input, scores, turn, state_history>>
           ELSE IF ~parsed.ok \/ parsed.card \notin Range(hand)
           THEN /\ discard_input' = token
                /\ UNCHANGED <<discard, players, pc, error, scores, turn, state_history>>
           ELSE LET ps == SetHand(Cur, RemoveFirst(hand, parsed.card))
                    dsc == Append(discard, parsed.card)
                IN  /\ players' = ps
                    /\ discard' = dsc
                    /\ discard_input' = <<>>
                    /\ after_turn(stock, dsc, ps)
    /\ UNCHANGED <<stock, draw, meld, validated>>
    /\ UNCHANGED unit

(***************************************************************************)
(* The game: Game.initialize on a deck, then Game.play.                    *)
(***************************************************************************)
Init ==
    \E cfg \in Configs, arr \in Arrangements, s \in 1..MaxStock :
        LET n == cfg[1] + cfg[2]
            g == initialize(SubSeq(arr, 1, hand_size(n) * n + s), cfg[1], cfg[2])
        IN  /\ stock = g.stock
            /\ discard = <<>>
            /\ players = g.players
            /\ state_history = <<build_state(g.stock, <<>>, g.players)>>
            /\ turn = 1
            /\ pc = "draw"
            /\ draw = <<>>
            /\ meld = NoMeldInput
            /\ validated = "none"
            /\ discard_input = <<>>
            /\ error = ""
            /\ scores = <<>>
            /\ made = None
            /\ ndraws = 0
            /\ ret = None

Next ==
    \/ DummyDraw
    \/ DummyMeld
    \/ DummyDiscard
    \/ \E line \in DrawLines : HumanDraw(line)
    \/ \E line \in MeldLines(players[Cur].hand) : HumanMeld(line)
    \/ \E token \in DiscardTokens(players[Cur].hand) : HumanDiscard(token)

Spec == Init /\ [][Next]_vars

(***************************************************************************)
(* A game of automated players only.  Game.play runs on without waiting    *)
(* for anything, so a step that can be taken is taken.                     *)
(***************************************************************************)
AllDummy == \A n \in DOMAIN players : players[n].computer

DummyInit == Init /\ AllDummy

DummyNext ==
    \/ DummyDraw
    \/ DummyMeld
    \/ DummyDiscard

\* Game.play, lines 62-69: the loop calls draw, meld and discard of the
\* current player one after the other; the phase the game is in ends
PhaseEnds ==
    /\ pc \in {"draw", "meld", "discard"} /\ ~Human
    /\ pc' \in {"draw", "meld", "discard", "over", "crashed"}

\* every step of an automated player changes pc, so weak fairness of the
\* change of phase is weak fairness of DummyNext
DummySpec == DummyInit /\ [][DummyNext]_vars /\ WF_pc(PhaseEnds)

(***************************************************************************)
(* The detection of melds on its own: DummyAgent(name, hand)._find_meld.   *)
(***************************************************************************)
\* the cards the hands are made of
DetectCards ==
    cards_of(<< <<"2", "D">>, <<"2", "H">>, <<"2", "C">>, <<"2", "S">>,
                <<"3", "H">>, <<"4", "H">>, <<"5", "H">>, <<"7", "H">> >>)

\* the hands: up to MaxHand pairwise distinct cards in any order
Hands ==
    {h \in UNION {[1..k -> Range(DetectCards)] : k \in 0..MaxHand} :
        \A i, j \in 1..Len(h) : i # j => h[i] # h[j]}

DetectInit ==
    \E hand \in Hands :
        /\ players = [n \in {<<"c", "0">>} |-> [computer |-> TRUE, hand |-> hand, melds |-> <<>>]]
        /\ stock = <<>>
        /\ pc = "detect"
        /\ ret = None
        /\ made = None
        /\ ndraws = 0
        /\ discard = <<>>
        /\ state_history = <<>>
        /\ turn = 1
        /\ draw = <<>>
        /\ meld = NoMeldInput
        /\ validated = "none"
        /\ discard_input = <<>>
        /\ error = ""
        /\ scores = <<>>

\* the call self._find_meld(game) of the agent
FindMeld ==
    /\ pc = "detect"
    /\ ret = None
    /\ ret' = [op |-> "_find_meld", args |-> players[Cur].hand, raises |-> "",
               value |-> find_meld(players[Cur].hand)]
    /\ UNCHANGED <<stock, players, pc, made, ndraws>>
    /\ UNCHANGED game

\* DummyAgent.meld on the hand: the candidates are looked for again and the
\* top scoring one is moved from the hand to the melds
MeldFound ==
    /\ pc = "detect"
    /\ ret # None
    /\ ret.op = "_find_meld"
    /\ LET melds == find_meld(players[Cur].hand)
       IN  /\ melds # <<>>
           /\ players' = [players EXCEPT
                            ![Cur].hand = remove_each(@, top_scoring(melds)).hand,
                            ![Cur].melds = Append(@, list_meld(top_scoring(melds)))]
    /\ ret' = [op |-> "meld", args |-> players[Cur].hand, raises |-> "", value |-> None]
    /\ UNCHANGED <<stock, pc, made, ndraws>>
    /\ UNCHANGED game

DetectNext ==
    \/ FindMeld
    \/ MeldFound

DetectSpec == DetectInit /\ [][DetectNext]_vars

(***************************************************************************)
(* A Deck on its own: constructed, then drawn from and dealt.              *)
(***************************************************************************)
\* the lists a Deck is constructed from: None, or the first cards of the
\* suit-major order
DeckInputs == {None} \cup {SubSeq(SuitMajor, 1, k) : k \in 1..MaxDeck}

\* the numbers of cards dealt to a player
DealCounts == {1, 7, 13}

DeckInit ==
    \E cards \in DeckInputs :
        /\ stock = Deck(cards)
        /\ made = cards
        /\ ndraws = 0
        /\ ret = None
        /\ pc = "deck"
        /\ players = <<>>
        /\ discard = <<>>
        /\ state_history = <<>>
        /\ turn = 1
        /\ draw = <<>>
        /\ meld = NoMeldInput
        /\ validated = "none"
        /\ discard_input = <<>>
        /\ error = ""
        /\ scores = <<>>

\* a draw that takes the first card of the list
DeckDraw_first ==
    /\ pc = "deck"
    /\ stock # <<>>
    /\ ret' = [op |-> "draw", args |-> <<>>, raises |-> "", value |-> Head(stock)]
    /\ stock' = Tail(stock)
    /\ ndraws' = ndraws + 1
    /\ UNCHANGED <<players, pc, made>>
    /\ UNCHANGED game

\* Deck.draw: self._cards.pop(), the IndexError of an empty list raised again
DeckDraw ==
    /\ pc = "deck"
    /\ IF stock = <<>>
       THEN /\ ret' = [op |-> "draw", args |-> <<>>, raises |-> "IndexError", value |-> None]
            /\ UNCHANGED <<stock, ndraws>>
       ELSE /\ ret' = [op |-> "draw", args |-> <<>>, raises |-> "", value |-> Last(stock)]
            /\ stock' = Front(stock)
            /\ ndraws' = ndraws + 1
    /\ UNCHANGED <<players, pc, made>>
    /\ UNCHANGED game

\* Deck.deal(count, n): the hands are slices of self._cards and the rest is
\* a new Deck, self._cards is not changed
DeckDeal(count, n) ==
    /\ pc = "deck"
    /\ LET d == deal(stock, count, n)
       IN  ret' = [op |-> "deal", args |-> <<count, n>>,
                   raises |-> IF d.ok THEN "" ELSE "ValueError",
                   value |-> [hands |-> d.hands, rest |-> d.rest]]
    /\ UNCHANGED <<stock, players, pc, made, ndraws>>
    /\ UNCHANGED game

DeckNext ==
    \/ DeckDraw
    \/ \E count \in DealCounts, n \in 1..MaxDealt : DeckDeal(count, n)

DeckSpec == DeckInit /\ [][DeckNext]_vars

(***************************************************************************)
(* Card tokens on their own: ascii_display_card and string_to_card.        *)
(***************************************************************************)
\* tokens as typed, well formed and not
TypedTokens ==
    {<<>>, <<"K">>, <<"K", "S">>, <<"1", "H">>, <<"1", "0", "H">>, <<"2", "X">>,
     <<"1", "1", "H">>, <<"1", "0", "H", "H">>}

TokenInit ==
    /\ \/ \E r \in RankSet, s \in Range(Suit) :
             ret = [op |-> "Card", args |-> <<r, s>>, raises |-> "", value |-> Card(r, s)]
       \/ \E t \in TypedTokens :
             ret = [op |-> "input", args |-> <<>>, raises |-> "", value |-> t]
    /\ pc = "token"
    /\ stock = <<>>
    /\ players = <<>>
    /\ made = None
    /\ ndraws = 0
    /\ discard = <<>>
    /\ state_history = <<>>
    /\ turn = 1
    /\ draw = <<>>
    /\ meld = NoMeldInput
    /\ validated = "none"
    /\ discard_input = <<>>
    /\ error = ""
    /\ scores = <<>>

\* ascii_display_card of the card just made
Format ==
    /\ pc = "token"
    /\ ret.op = "Card"
    /\ ret' = [op |-> "ascii_display_card", args |-> ret.value, raises |-> "",
               value |-> ascii_display_card(ret.value)]
    /\ UNCHANGED <<stock, players, pc, made, ndraws>>
    /\ UNCHANGED game

\* string_to_card of the token just formatted or typed
Parse ==
    /\ pc = "token"
    /\ ret.op \in {"ascii_display_card", "input"}
    /\ LET p == string_to_card(ret.value)
       IN  ret' = [op |-> "string_to_card", args |-> ret.value,
                   raises |-> IF p.ok THEN "" ELSE "ValueError",
                   value |-> p.card]
    /\ UNCHANGED <<stock, players, pc, made, ndraws>>
    /\ UNCHANGED game

TokenNext ==
    \/ Format
    \/ Parse

TokenSpec == TokenInit /\ [][TokenNext]_vars

(***************************************************************************)
(* Properties.                                                             *)
(***************************************************************************)
Ended == pc \in {"over", "crashed", "hung"}

\* a step of the discard phase that moved a card to the discard pile
Discarded == pc = "discard" /\ discard' # discard

\* C1: the termination check runs after each discard and before the next
\* player acts: a discard that leaves the acting player's hand or the stock
\* empty ends the game at once (sys.exit, or the exception of the scoring),
\* the next player is asked to draw only if neither is empty, and once the
\* game has ended no step is taken any more.
C1_TerminationAfterDiscard ==
    [][/\ (Discarded /\ (Len(players'[Cur].hand) = 0 \/ Len(stock') = 0))
            => (pc' \in {"over", "crashed"} /\ turn' = turn)
       /\ (pc = "discard" /\ pc' = "draw")
            => (Discarded /\ Len(players'[Cur].hand) > 0 /\ Len(stock') > 0)
       /\ Ended => UNCHANGED vars]_vars

\* the game ended on a discard that emptied the hand of a player who was not
\* the last of the round, the stock not empty
C1_Witness ==
    /\ pc \in {"over", "crashed"}
    /\ error \in {"", "KeyError"}
    /\ players[Cur].hand = <<>>
    /\ discard # <<>>
    /\ stock # <<>>
    /\ turn < Len(order)

\* C2: the players act in ascending order of their names, and a turn is
\* draw, then meld, then discard of the same player: only the current
\* player's hand and melds change, the phases follow each other in that
\* order, and after a discard the next player in the order draws (the first
\* one again after the last).
C2_TurnOrder ==
    [][/\ \A i, j \in 1..Len(order) : i < j => StrLess(order[i], order[j])
       /\ \A n \in DOMAIN players \ {Cur} : players'[n] = players[n]
       /\ pc = "draw" => (turn' = turn /\ pc' \in {"draw", "meld", "crashed", "hung"})
       /\ pc = "meld" => (turn' = turn /\ pc' \in {"meld", "discard", "crashed"})
       /\ pc = "discard" =>
            \/ turn' = turn /\ pc' \in {"discard", "over", "crashed"}
            \/ pc' = "draw" /\ turn' = (IF turn < Len(order) THEN turn + 1 ELSE 1)]_vars

\* the second of three players, an interactive one after an automated one,
\* has drawn and melded and is about to discard
C2_Witness ==
    /\ Len(order) = 3
    /\ turn = 2
    /\ pc = "discard"
    /\ players[order[1]].computer
    /\ ~players[order[2]].computer
    /\ Len(players[Cur].melds) = 1

(***************************************************************************)
(* What the specification asks of a meld, on the set of its cards.         *)
(***************************************************************************)
SameRank(S) == \A a, b \in S : a.rank = b.rank

SameSuit(S) == \A a, b \in S : a.suit = b.suit

\* the ordering values are pairwise distinct and form an interval
Consecutive(S) ==
    LET V == {RANK_MAP[c.rank] : c \in S}
    IN  /\ Cardinality(V) = Cardinality(S)
        /\ \A v \in V : (v - 1 \in V) \/ (\A w \in V : v <= w)

SetOrRun(S) ==
    /\ Cardinality(S) >= 3
    /\ SameRank(S) \/ (SameSuit(S) /\ Consecutive(S))

\* the meld a reference owner:index names, as the specification resolves it
RefResolves(ref) ==
    LET parts == Split(ref, ":")
    IN  /\ Len(parts) = 2
        /\ parts[1] \in DOMAIN players
        /\ Len(parts[2]) = 1
        /\ IsDigit(parts[2][1])
        /\ DigitVal(parts[2][1]) < Len(players[parts[1]].melds)

RefCards(ref) ==
    LET parts == Split(ref, ":")
    IN  players[parts[1]].melds[DigitVal(parts[2][1]) + 1].cards

\* C3: without a reference validate_meld returns true exactly when the set
\* of the proposed cards has at least 3 cards and is of one rank, or of one
\* suit with consecutive ordering values.
C3_ValidateIffSetOrRun ==
    (validated # "none" /\ meld.ref = None)
        => ((validated = "True") <=> SetOrRun(Range(meld.cards)))

\* C4: with a reference that names an existing meld, validate_meld decides
\* on the union of the proposed cards and the cards of that meld.
C4_LayoffDecidedOnUnion ==
    [][(pc = "meld" /\ meld' # meld /\ meld'.ref # None /\ RefResolves(meld'.ref))
          => /\ pc' = "meld"
             /\ (validated' = "True")
                  <=> SetOrRun(Range(meld'.cards) \cup Range(RefCards(meld'.ref)))]_vars

\* C5: a reference that names no existing meld makes validate_meld return
\* false, with no exception leaving the meld phase and no change of state.
C5_StaleReferenceRejected ==
    [][(pc = "meld" /\ meld' # meld /\ meld'.ref # None /\ ~RefResolves(meld'.ref))
          => /\ pc' = "meld"
             /\ validated' = "False"
             /\ UNCHANGED <<players, stock, discard>>]_vars

\* the cards are pairwise distinct cards of the hand
FromHand(cards, hand) ==
    /\ \A i, j \in 1..Len(cards) : i # j => cards[i] # cards[j]
    /\ Range(cards) \subseteq Range(hand)

\* hand without the cards, the order of the others kept
Without(hand, cards) == SelectSeq(hand, LAMBDA c : c \notin Range(cards))

\* C6: an interactive proposal, without a reference, of a valid meld of k
\* cards of the hand removes exactly those cards from the hand and appends
\* exactly one record holding them to the player's melds; the stock, the
\* discard pile and the other players are unchanged.
C6_MeldMovesProposedCards ==
    [][(/\ pc = "meld"
        /\ validated' = "True"
        /\ meld'.ref = None
        /\ FromHand(meld'.cards, players[Cur].hand))
          => /\ players'[Cur].hand = Without(players[Cur].hand, meld'.cards)
             /\ Len(players'[Cur].hand) = Len(players[Cur].hand) - Len(meld'.cards)
             /\ players'[Cur].melds = Append(players[Cur].melds, tuple_meld(meld'.cards, None))
             /\ \A n \in DOMAIN players \ {Cur} : players'[n] = players[n]
             /\ UNCHANGED <<stock, discard, pc, turn>>]_vars

\* an interactive player has just melded four cards of the hand
C6_Witness ==
    /\ pc = "meld"
    /\ validated = "True"
    /\ meld.ref = None
    /\ Len(meld.cards) = 4
    /\ Len(players[Cur].melds) = 1
    /\ players[Cur].melds[1] = tuple_meld(meld.cards, None)
    /\ Range(meld.cards) \cap Range(players[Cur].hand) = {}

\* C7: a lay-off that the rules allow (the reference names a meld, the union
\* is a set or a run, the proposed cards are in the hand) removes only the
\* proposed cards from the hand and appends one record of the acting player
\* that carries the reference and holds the proposed cards only; the
\* referenced meld is unchanged.
C7_LayoffMovesProposedCardsOnly ==
    [][(/\ pc = "meld"
        /\ meld' # meld
        /\ meld'.ref # None
        /\ RefResolves(meld'.ref)
        /\ FromHand(meld'.cards, players[Cur].hand)
        /\ SetOrRun(Range(meld'.cards) \cup Range(RefCards(meld'.ref))))
          => /\ players'[Cur].hand = Without(players[Cur].hand, meld'.cards)
             /\ players'[Cur].melds =
                    Append(players[Cur].melds, tuple_meld(meld'.cards, meld'.ref))
             /\ \A n \in DOMAIN players \ {Cur} : players'[n] = players[n]]_vars

\* C8: a proposal that fails validation changes no hand, no meld, neither
\* the stock nor the discard pile, and the meld prompt is repeated: the
\* player is still in the meld phase, where 'discard' ends it.
C8_RejectedMeldChangesNothing ==
    [][(pc = "meld" /\ validated' = "False" /\ <<meld, validated>>' # <<meld, validated>>)
          => /\ UNCHANGED <<players, stock, discard, turn, error, state_history>>
             /\ pc' = "meld"]_vars

\* a proposal of three cards of the hand has just been rejected
C8_Witness ==
    /\ pc = "meld"
    /\ validated = "False"
    /\ meld.ref = None
    /\ Len(meld.cards) = 3
    /\ Range(meld.cards) \subseteq Range(players[Cur].hand)

IsSet(cards) ==
    /\ SameRank(Range(cards))
    /\ \A i, j \in 1..Len(cards) : i # j => cards[i].suit # cards[j].suit

IsRun(cards) ==
    /\ SameSuit(Range(cards))
    /\ Cardinality(Range(cards)) = Len(cards)
    /\ Consecutive(Range(cards))

\* C9: every meld in a player's meld list has at least 3 cards and is a Set
\* (one rank, distinct suits) or a Run (one suit, consecutive values).
C9_MeldsAreSetsOrRuns ==
    \A n \in DOMAIN players : \A i \in 1..Len(players[n].melds) :
        LET cards == players[n].melds[i].cards
        IN  Len(cards) >= 3 /\ (IsSet(cards) \/ IsRun(cards))

\* an interactive player holds a run and a set, melded one after the other
C9_Witness ==
    \E n \in DOMAIN players :
        /\ Len(players[n].melds) = 2
        /\ players[n].melds[1].shape = "tuple"
        /\ IsRun(players[n].melds[1].cards)
        /\ IsSet(players[n].melds[2].cards)

\* the score the specification gives a player
SpecScore(p) ==
    SumSeq([i \in 1..Len(p.melds) |-> card_points(p.melds[i].cards)]) - card_points(p.hand)

\* C10: when the game is over, score_players has given every player the
\* points of the cards of the player's melds minus the points of the cards
\* left in the hand, whichever agent recorded the melds.
C10_ScoreIsMeldsMinusHand ==
    [][(Discarded /\ (Len(players'[Cur].hand) = 0 \/ Len(stock') = 0))
          => \A n \in DOMAIN players :
                \E i \in 1..Len(scores') : scores'[i] = <<n, SpecScore(players'[n])>>]_vars

\* C11: the ranking score_players returns lists every player exactly once
\* with the score computed for that player, in order of descending score,
\* and the first entry, announced as the winner, has the maximum score.
C11_RankingDescending ==
    pc = "over" =>
        /\ Len(scores) = Cardinality(DOMAIN players)
        /\ \A n \in DOMAIN players :
              Cardinality({i \in 1..Len(scores) : scores[i][1] = n}) = 1
        /\ \A i \in 1..Len(scores) :
              scores[i][2] = player_score(players[scores[i][1]])
        /\ \A i, j \in 1..Len(scores) : i < j => scores[i][2] >= scores[j][2]
        /\ \A n \in DOMAIN players : scores[1][2] >= player_score(players[n])

\* a game of three players is over, their scores pairwise distinct and the
\* winner not the player the dict lists first
C11_Witness ==
    /\ pc = "over"
    /\ Len(scores) = 3
    /\ \A i, j \in 1..Len(scores) : i < j => scores[i][2] > scores[j][2]
    /\ scores[1][1] # insertion_order[1]

\* C12: a completed draw phase moves either the top (last) card of the
\* stock, and only it, into the acting player's hand, the discard pile
\* unchanged, or the top N cards of the discard pile, N at most its size,
\* the stock unchanged; a draw request that is not served, as one for more
\* cards than the discard pile holds, changes nothing and the player stays
\* at the draw prompt.
C12_DrawMovesStockTopOrDiscardTop ==
    [][/\ (pc = "draw" /\ pc' = "meld") =>
            LET h == players[Cur].hand
                h2 == players'[Cur].hand
            IN  /\ players' = SetHand(Cur, h2)
                /\ turn' = turn
                /\ \/ /\ stock # <<>>
                      /\ stock' = Front(stock)
                      /\ h2 = Append(h, Last(stock))
                      /\ discard' = discard
                   \/ \E N \in 0..Len(discard) :
                         /\ stock' = stock
                         /\ discard' = SubSeq(discard, 1, Len(discard) - N)
                         /\ Len(h2) = Len(h) + N
                         /\ SubSeq(h2, 1, Len(h)) = h
                         /\ Range(SubSeq(h2, Len(h) + 1, Len(h2)))
                                = Range(SubSeq(discard, Len(discard) - N + 1, Len(discard)))
       /\ (pc = "draw" /\ pc' # "meld") => UNCHANGED <<stock, discard, players>>
       /\ (/\ pc = "draw"
           /\ Len(draw') = 2
           /\ draw'[1] = "d"
           /\ IsDigit(draw'[2])
           /\ DigitVal(draw'[2]) > Len(discard))
            => (pc' = "draw" /\ UNCHANGED <<stock, discard, players, turn>>)]_vars

\* an interactive player has taken the two cards of the discard pile, the
\* top one first, and goes on to meld
C12_Witness ==
    /\ pc = "meld"
    /\ Human
    /\ discard = <<>>
    /\ Len(players[Cur].hand) = hand_size(Len(order)) + 2
    /\ \E n, m \in DOMAIN players \ {Cur} :
          /\ n # m
          /\ Len(players[n].hand) + Len(players[n].melds) * 3 <= hand_size(Len(order))
          /\ players[Cur].hand[hand_size(Len(order)) + 1] \notin Range(state_history[1].players[m].hand)
          /\ players[Cur].hand[hand_size(Len(order)) + 1] \in Range(state_history[1].players[n].hand)

\* C13: a completed discard phase moves exactly one card from the acting
\* player's hand to the top of the discard pile: the hand loses that one
\* card, the pile gains it on top, and the stock, every meld and every other
\* hand are unchanged; the discard phase is left in no other way.
C13_DiscardMovesOneCard ==
    [][/\ Discarded =>
            LET h == players[Cur].hand
            IN  /\ \E i \in 1..Len(h) :
                      /\ players'[Cur].hand = SubSeq(h, 1, i - 1) \o SubSeq(h, i + 1, Len(h))
                      /\ discard' = Append(discard, h[i])
                /\ Len(players'[Cur].hand) = Len(h) - 1
                /\ Len(discard') = Len(discard) + 1
                /\ stock' = stock
                /\ \A n \in DOMAIN players : players'[n].melds = players[n].melds
                /\ \A n \in DOMAIN players \ {Cur} : players'[n] = players[n]
       /\ (pc = "discard" /\ pc' \in {"draw", "over"}) => Discarded
       /\ (pc = "discard" /\ ~Discarded) => UNCHANGED <<stock, discard, players>>]_vars

\* an interactive player with a meld on the table has discarded after an
\* automated player did, and the next player is asked to draw
C13_Witness ==
    /\ pc = "draw"
    /\ turn = 3
    /\ Len(discard) = 2
    /\ players[order[1]].computer
    /\ ~players[order[2]].computer
    /\ Len(players[order[2]].melds) = 1
    /\ discard[2] \in Range(state_history[1].players[order[2]].hand)
    /\ discard[2] \notin Range(players[order[2]].hand)

\* the runs the specification asks the detection for: the sets of at least
\* 3 cards of the hand of one suit with consecutive ordering values that no
\* card of the hand extends
MaximalRuns(hand) ==
    {S \in SUBSET Range(hand) :
        /\ Cardinality(S) >= 3
        /\ SameSuit(S)
        /\ Consecutive(S)
        /\ \A c \in Range(hand) \ S :
              ~(SameSuit(S \cup {c}) /\ Consecutive(S \cup {c}))}

\* C14: the detection emits every maximal run of the hand exactly once and
\* complete, and every candidate that is not a group of one rank is a
\* maximal run: no proper sub-run is emitted.  On [3H,4H,5H,7H] the one
\* candidate is [3H,4H,5H].
C14_OnlyMaximalRuns ==
    (ret # None /\ ret.op = "_find_meld") =>
        /\ \A S \in MaximalRuns(ret.args) :
              Cardinality({i \in 1..Len(ret.value) :
                              Range(ret.value[i]) = S /\ Len(ret.value[i]) = Cardinality(S)}) = 1
        /\ \A i \in 1..Len(ret.value) :
              SameRank(Range(ret.value[i])) \/ Range(ret.value[i]) \in MaximalRuns(ret.args)

\* the cards of the hand of rank r, in the order of the hand
OfRank(hand, r) == SelectSeq(hand, LAMBDA c : c.rank = r)

\* C15: for every rank that occurs at least 3 times in the hand the
\* detection emits exactly one candidate, which holds all the cards of the
\* hand of that rank, and for a rank that occurs less often it emits no
\* candidate of that rank.  On [2D,2H,2C,2S] the one candidate is the set of
\* the four cards.
C15_SetsOfThreeOrMore ==
    (ret # None /\ ret.op = "_find_meld") =>
        \A r \in RankSet :
            LET ofr == {i \in 1..Len(ret.value) :
                          \E k \in 1..Len(ret.value[i]) : ret.value[i][k].rank = r
                                                          /\ SameRank(Range(ret.value[i]))}
            IN  IF Len(OfRank(ret.args, r)) >= 3
                THEN /\ Cardinality(ofr) = 1
                     /\ \A i \in ofr : ret.value[i] = OfRank(ret.args, r)
                ELSE ofr = {}

\* the detection has run on the hand [2D,2H,2C,2S] and returned one
\* candidate, the four cards
C15_Witness ==
    /\ ret # None
    /\ ret.op = "_find_meld"
    /\ ret.args = SubSeq(DetectCards, 1, 4)
    /\ ret.value = <<SubSeq(DetectCards, 1, 4)>>

\* a deal has just been made of the deck
Dealt == ret' # None /\ ret'.op = "deal"

\* C16: a deal of count cards to n players fails whenever count * n is more
\* than the number of cards the deck holds, and a deal that fails leaves
\* the deck as it was.
C16_DealFailsBeyondDeck ==
    [][(Dealt /\ ret'.args[1] * ret'.args[2] > Len(stock))
          => (ret'.raises # "" /\ stock' = stock)]_vars

\* C17: a deal that succeeds returns n hands of count cards each and a deck
\* of the remaining cards, count * n fewer than the deck dealt; the hands
\* and the remaining deck share no card and together hold the cards of the
\* deck dealt.
C17_DealPartitionsDeck ==
    [][(Dealt /\ ret'.raises = "")
          => LET count == ret'.args[1]
                 n == ret'.args[2]
                 hands == ret'.value.hands
                 rest == ret'.value.rest
             IN  /\ Len(hands) = n
                 /\ \A i \in 1..n : Len(hands[i]) = count
                 /\ Len(rest) = Len(stock) - count * n
                 /\ \A i, j \in 1..n : i # j => Range(hands[i]) \cap Range(hands[j]) = {}
                 /\ \A i \in 1..n : Range(hands[i]) \cap Range(rest) = {}
                 /\ Concat(hands) \o rest = stock]_vars

\* C18: a deck constructed by default holds 52 cards, pairwise distinct, one
\* for every rank and suit; after k draws it holds 52 - k cards, so it is
\* empty after 52 draws and not before.
C18_DefaultDeckOf52 ==
    made = None =>
        /\ Len(Deck(made)) = 52
        /\ Cardinality(Range(Deck(made))) = 52
        /\ {<<c.rank, c.suit>> : c \in Range(Deck(made))} = RankSet \X Range(Suit)
        /\ Cardinality(RankSet) = 13
        /\ Cardinality(Range(Suit)) = 4
        /\ Len(stock) = 52 - ndraws
        /\ stock = SubSeq(Deck(made), 1, 52 - ndraws)
        /\ (stock = <<>>) <=> (ndraws = 52)

\* the 52nd draw has emptied a default deck
C18_Witness ==
    /\ pc = "deck"
    /\ made = None
    /\ ndraws = 52
    /\ stock = <<>>
    /\ ret.op = "draw"
    /\ ret.raises = ""

\* a draw has just been made of the deck
Drawn == ret' # None /\ ret'.op = "draw"

\* C19: a draw removes the last card of the deck and returns it, the cards
\* before it are left as they are; from an empty deck it raises the error of
\* the empty list and the deck stays empty.
C19_DrawTakesLast ==
    [][Drawn =>
          IF stock = <<>>
          THEN ret'.raises = "IndexError" /\ stock' = <<>>
          ELSE /\ ret'.raises = ""
               /\ ret'.value = stock[Len(stock)]
               /\ stock' = SubSeq(stock, 1, Len(stock) - 1)]_vars

\* a deck made of a list of cards has been drawn empty, and one more draw
\* has failed
C19_Witness ==
    /\ pc = "deck"
    /\ made # None
    /\ ndraws = Len(made)
    /\ ndraws > 1
    /\ stock = <<>>
    /\ ret.op = "draw"
    /\ ret.raises = "IndexError"

\* C20: parsing the token that formatting gives for a card returns that
\* card, for every card of the 52, those of rank 10 with their tokens of
\* three characters included.
C20_ParseFormatRoundTrip ==
    [][(ret # None /\ ret.op = "ascii_display_card" /\ ret'.op = "string_to_card")
          => /\ ret'.raises = ""
             /\ ret'.value = ret.args
             /\ ret'.args = ret.value
             /\ Len(ret.value) = (IF ret.args.rank = <<"1", "0">> THEN 3 ELSE 2)]_vars

\* the ten of hearts has been formatted as 10H and parsed back
C20_Witness ==
    /\ pc = "token"
    /\ ret.op = "string_to_card"
    /\ ret.args = <<"1", "0", "H">>
    /\ ret.raises = ""
    /\ ret.value = Card(<<"1", "0">>, "hearts")

\* the line just read at the meld prompt has an unparseable token or is empty
MalformedMeld ==
    /\ pc = "meld"
    /\ meld' # meld
    /\ "tokens" \in DOMAIN meld'
    /\ \/ meld'.tokens = <<>>
       \/ \E i \in 1..Len(meld'.tokens) :
             ":" \notin Range(meld'.tokens[i]) /\ ~string_to_card(meld'.tokens[i]).ok

\* the token just read at the discard prompt is unparseable
MalformedDiscard ==
    /\ pc = "discard"
    /\ discard_input' # discard_input
    /\ discard_input' # <<>>
    /\ ~string_to_card(discard_input').ok

\* C21: a malformed token read in the interactive meld or discard phase
\* changes no hand, no meld, neither the stock nor the discard pile, the
\* player stays at the same prompt, and no exception ends the game.
C21_MalformedTokenRecoverable ==
    [][(MalformedMeld \/ MalformedDiscard)
          => /\ pc' = pc
             /\ error' = ""
             /\ UNCHANGED <<players, stock, discard, turn, state_history>>]_vars

\* the request just read at the draw prompt is neither s nor d and a digit
MalformedDraw ==
    /\ pc = "draw"
    /\ draw' # draw
    /\ draw' # <<>>
    /\ draw' # <<"s">>
    /\ ~(Len(draw') >= 2 /\ draw'[1] = "d" /\ IsDigit(draw'[2]))

\* C22: a malformed request read in the interactive draw phase leads to the
\* draw prompt again, where the next request is read, with nothing changed;
\* the phase is never in a state where no further input is read.
C22_MalformedDrawAsksAgain ==
    [][/\ MalformedDraw => (pc' = "draw" /\ UNCHANGED <<players, stock, discard, turn>>)
       /\ pc' # "hung"]_vars

\* the last player of the round has discarded and the game goes on
RoundCompleted == pc = "discard" /\ pc' = "draw" /\ turn = Len(order)

\* C23: the state history starts with the one snapshot taken by initialize
\* and grows by exactly one snapshot, of the state as the round left it,
\* when a round is completed after every player has acted; no other step
\* adds or changes a snapshot, a round cut short by game over adds none.
C23_HistoryGrowsPerRound ==
    /\ state_history = <<build_state(stock, discard, players)>>
    /\ [][IF RoundCompleted
           THEN state_history' = Append(state_history, build_state(stock', discard', players'))
           ELSE state_history' = state_history]_vars

\* a game is over in its third round: the history holds the snapshot of
\* initialize and those of the two rounds completed
C23_Witness ==
    /\ pc = "over"
    /\ Len(state_history) = 3
    /\ Len(discard) = 3
    /\ state_history[1].discard = <<>>
    /\ Len(state_history[2].discard) = 1
    /\ Len(state_history[3].discard) = 2

\* the cards a proposal names that the hand does not hold, a card named
\* twice counted as missing the second time
NotHeld(cards, hand) == ~remove_each(hand, cards).ok

\* C26: an interactive proposal that names a card that is not in the acting
\* player's hand, or names one card twice, is rejected: the player stays at
\* the meld prompt, no exception ends the game, and the hand and the melds
\* are as they were.
C26_ProposalOfCardsNotHeldRejected ==
    [][(/\ pc = "meld"
        /\ meld' # meld
        /\ "tokens" \notin DOMAIN meld'
        /\ meld'.ref = None
        /\ meld'.cards # <<>>
        /\ NotHeld(meld'.cards, players[Cur].hand))
          => /\ pc' = "meld"
             /\ error' = ""
             /\ validated' = "False"
             /\ UNCHANGED <<players, stock, discard>>]_vars

\* all the cards of the game, place by place
AllCards(stk, dsc, ps) ==
    LET names == sorted_names(DOMAIN ps)
    IN  stk \o dsc
          \o Concat([i \in 1..Len(names) |-> ps[names[i]].hand])
          \o Concat([i \in 1..Len(names) |->
                       Concat([k \in 1..Len(ps[names[i]].melds) |-> ps[names[i]].melds[k].cards])])

\* C24: every card of the deck the game was dealt from is in exactly one
\* place among the stock, the discard pile, the hands and the meld records:
\* none is lost and none is there twice.
C24_CardConservation ==
    LET now == AllCards(stock, discard, players)
        dealt == AllCards(state_history[1].stock, <<>>,
                          [n \in DOMAIN players |->
                              [hand |-> state_history[1].players[n].hand, melds |-> <<>>]])
    IN  /\ Range(now) = Range(dealt)
        /\ Len(now) = Len(dealt)
        /\ Cardinality(Range(now)) = Len(now)

\* C25: when the discard phase begins, and as long as it lasts, the acting
\* player holds at least one card to discard.
C25_DiscardPhaseHasCard ==
    pc = "discard" => Len(players[Cur].hand) >= 1

C28_StockNonEmptyAtDraw ==
    /\ [](pc = "draw" => Len(stock) >= 1)
    /\ [][pc = "draw" => error' # "IndexError"]_vars

\* a draw phase of a later turn of a game of people and automated players,
\* the stock at its last card
C28_Witness ==
    /\ pc = "draw"
    /\ Len(stock) = 1
    /\ Len(discard) >= 1
    /\ turn > 1
    /\ \E n \in DOMAIN players : players[n].computer
    /\ \E n \in DOMAIN players : ~players[n].computer

====
